---- MODULE Spec2Model ----
(***************************************************************************)
(* Model of the cafe lookup service of latte-locator:                      *)
(*   - MemoryCache   (lib/cache/memoryCache.ts): a JavaScript Map used as   *)
(*     a bounded store with expiry on read;                                 *)
(*   - getCacheKey / formatDistance (lib/utils/helpers.ts);                 *)
(*   - fetchRealCafesFromGoogle / generateMockCafes / GET                   *)
(*     (app/api/cafes/route.ts).                                            *)
(*                                                                         *)
(* Units: time in milliseconds, coordinates in 1/100000 of a degree,        *)
(* distances in metres.                                                     *)
(***************************************************************************)
EXTENDS Integers, Sequences, FiniteSets, TLC

VARIABLES
    cache,      \* MemoryCache.cache: the Map, as the sequence of its entries in iteration order
    now,        \* the value Date.now() returns
    born,       \* history: for every key held, the number of the Map insertion that put it there
    inserts,    \* history: how many insertions of a new key the Map has seen
    apiKey,     \* process.env.GOOGLE_PLACES_API_KEY
    pc,         \* per handler: where the GET invocation stands
    req,        \* per handler: the query parameters of the request being served
    pending,    \* per handler: the value fetchRealCafesFromGoogle resolved with
    resp,       \* per handler: the response returned for the request
    local,      \* per handler: startTime, cacheHit, and the calls made for the request so far
    last,       \* history: who took the last step (a handler, or 0) and the MemoryCache call in it
    budget,     \* how much of the bounds of the exploration is used
    ad,         \* one call of fetchRealCafesFromGoogle on its own: its inputs and its result
    page        \* the page component: its React state, its timers and its requests in flight

vars == <<cache, now, born, inserts, apiKey, pc, req, pending, resp, local, last, budget, ad, page>>

-----------------------------------------------------------------------------
(* Program constants *)

MEMORY_CACHE_TTL == 300000

MAX_MEMORY_CACHE_SIZE == 100

MOCK_COUNT == 10

DEFAULT_RADIUS == 25000

FETCH_TIMEOUT == 5000

(* Bounds of the exploration *)

MaxRequests == 2

MaxCacheOps == 2

MaxTicks == 1

-----------------------------------------------------------------------------
(* JavaScript values *)

Undefined == "<undefined>"

Null == "<null>"

\* The Map's iteration order is insertion order: keys(m) lists the keys first to last.
MapKeys(m) == [i \in 1..Len(m) |-> m[i].key]

MapHas(m, k) == \E i \in 1..Len(m) : m[i].key = k

MapIndex(m, k) == CHOOSE i \in 1..Len(m) : m[i].key = k

\* Map.prototype.get: the entry stored under k, or undefined.
MapGet(m, k) == IF MapHas(m, k) THEN m[MapIndex(m, k)] ELSE Undefined

\* Map.prototype.delete: removes the entry, the others keep their order.
MapDelete(m, k) == SelectSeq(m, LAMBDA e : e.key # k)

\* A faulty variant of MapSet: an existing key is moved to the end when it is written.
MapSetPromote(m, k, e) == Append(MapDelete(m, k), e)

\* Map.prototype.set: an existing key keeps its position, a new key goes last.
MapSet(m, k, e) ==
    IF MapHas(m, k)
    THEN [m EXCEPT ![MapIndex(m, k)] = e]
    ELSE Append(m, e)

\* String truthiness: the empty string is falsy, undefined is falsy.
TruthyKey(k) == k # Undefined /\ k # ""

\* this.cache.keys().next().value
FirstKey(m) == IF Len(m) = 0 THEN Undefined ELSE m[1].key

-----------------------------------------------------------------------------
(* MemoryCache, as functions of the Map and the clock *)

\* A faulty variant of Expired: an entry aged exactly the TTL is expired.
ExpiredAtTTL(e, t) == t - e.timestamp >= MEMORY_CACHE_TTL

\* get: the test of line 19.
Expired(e, t) == t - e.timestamp > MEMORY_CACHE_TTL

\* What get returns when it returns null (lines 16 and 21); no call returns this
\* before any call was made.
NullValue == [null |-> TRUE, data |-> [cafes |-> <<>>, nextPageToken |-> Undefined]]

\* get: the value returned, null or cached.data.
GetValue(m, k, t) ==
    IF ~MapHas(m, k) THEN NullValue
    ELSE IF Expired(MapGet(m, k), t) THEN NullValue
    ELSE [null |-> FALSE, data |-> MapGet(m, k).data]

\* A faulty variant of GetMap: a get sweeps every expired entry out of the Map.
GetMapSweep(m, k, t) == SelectSeq(m, LAMBDA e : ~Expired(e, t))

\* get: the Map afterwards.
GetMap(m, k, t) ==
    IF MapHas(m, k) /\ Expired(MapGet(m, k), t) THEN MapDelete(m, k) ELSE m

\* A faulty variant of Evicted: the newest entry is dropped instead of the oldest.
EvictedNewest(m) ==
    IF Len(m) >= MAX_MEMORY_CACHE_SIZE /\ TruthyKey(FirstKey(m))
    THEN SubSeq(m, 1, Len(m) - 1)
    ELSE m

\* A faulty variant of Evicted: no eviction at all.
EvictedNever(m) == m

\* set: the Map after lines 29-34.
Evicted(m) ==
    IF Len(m) >= MAX_MEMORY_CACHE_SIZE /\ TruthyKey(FirstKey(m))
    THEN MapDelete(m, FirstKey(m))
    ELSE m

\* set: the Map afterwards.
SetMap(m, k, d, t) == MapSet(Evicted(m), k, [key |-> k, data |-> d, timestamp |-> t])

\* size(): the number of entries of the Map, expired or not.
size(m) == Len(m)

-----------------------------------------------------------------------------
(* lib/utils/helpers.ts *)

Abs(x) == IF x < 0 THEN -x ELSE x

Pad3(n) == IF n < 10 THEN "00" \o ToString(n) ELSE IF n < 100 THEN "0" \o ToString(n) ELSE ToString(n)

\* A faulty variant of ToFixed3: the digits after the third are cut off, not rounded.
ToFixed3Truncated(x) ==
    LET n == Abs(x) \div 100
    IN  (IF x < 0 THEN "-" ELSE "") \o ToString(n \div 1000) \o "." \o Pad3(n % 1000)

\* Number.prototype.toFixed(3) of x/100000: the sign, then the magnitude rounded to
\* thousandths (a magnitude that rounds to zero keeps its sign: "-0.000").
ToFixed3(x) ==
    LET n == (Abs(x) + 50) \div 100
    IN  (IF x < 0 THEN "-" ELSE "") \o ToString(n \div 1000) \o "." \o Pad3(n % 1000)

\* getCacheKey({latitude, longitude, radius, query})
getCacheKey(latitude, longitude, radius, query) ==
    "cafes:" \o ToFixed3(latitude) \o "," \o ToFixed3(longitude) \o ":" \o ToString(radius) \o ":" \o query

\* The distance of a record whose coordinates are not numbers (NaN).
NaNDistance == 0 - 1

\* A faulty variant of MilesTenths: the digits after the first are cut off, not rounded.
MilesTenthsTruncated(meters) == (meters * 1000) \div 160934

\* (meters / 1609.34).toFixed(1), as tenths of a mile.
MilesTenths(meters) ==
    LET q == meters \div 160934
        r == meters % 160934
    IN  q * 1000 + ((r * 1000 + 80467) \div 160934)

\* formatDistance(meters), meters a whole number
formatDistance(meters) ==
    IF meters = NaNDistance THEN "NaN mi"
    ELSE IF meters < 1000 THEN ToString(meters) \o " m"
    ELSE ToString(MilesTenths(meters) \div 10) \o "." \o ToString(MilesTenths(meters) % 10) \o " mi"

-----------------------------------------------------------------------------
(* app/api/cafes/route.ts: arithmetic *)

RECURSIVE IsqrtIn(_, _, _)
IsqrtIn(n, lo, hi) ==
    IF lo >= hi THEN lo
    ELSE LET mid == (lo + hi + 1) \div 2
         IN  IF mid * mid <= n THEN IsqrtIn(n, mid, hi) ELSE IsqrtIn(n, lo, mid - 1)

\* Math.sqrt, to a whole number (arguments below 2^30).
Isqrt(n) == IsqrtIn(n, 0, 32767)

\* 1000 * Math.cos(lat * Math.PI / 180), lat in 1/100000 degree, by the cosine series
\* on the angle reduced to [0, 90] degrees.
CosMilli(lat) ==
    LET d   == Abs(lat) % 36000000
        e   == IF d > 18000000 THEN 36000000 - d ELSE d
        neg == e > 9000000
        f   == IF neg THEN 18000000 - e ELSE e
        x   == ((f \div 100) * 1745) \div 100000
        x2  == (x * x) \div 1000
        x4  == (x2 * x2) \div 1000
        x6  == (x4 * x2) \div 1000
        x8  == (x6 * x2) \div 1000
        c   == 1000 - (x2 \div 2) + (x4 \div 24) - (x6 \div 720) + (x8 \div 40320)
    IN  IF neg THEN -c ELSE c

\* calculateDistance: the haversine distance in whole metres, for points within a
\* fraction of a degree of each other (where 2*atan2(sqrt a, sqrt(1-a)) = 2*sqrt a).
calculateDistance(lat1, lng1, lat2, lng2) ==
    LET dphi == lat2 - lat1
        dlam == lng2 - lng1
        s    == dphi * dphi
                + ((dlam * CosMilli(lat1)) \div 1000) * ((dlam * CosMilli(lat2)) \div 1000)
        \* farther apart: the same sum in 1/100 degree, the distance to about a kilometre
        cphi == dphi \div 1000
        clam == dlam \div 1000
        c    == cphi * cphi
                + ((clam * CosMilli(lat1)) \div 1000) * ((clam * CosMilli(lat2)) \div 1000)
    IN  IF Abs(dphi) < 30000 /\ Abs(dlam) < 30000
        THEN (Isqrt(s) * 11119) \div 10000
        ELSE Isqrt(c) * 1112

-----------------------------------------------------------------------------
(* app/api/cafes/route.ts: String.prototype.hashCode *)

UpperCase == "ABCDEFGHIJKLMNOPQRSTUVWXYZ"

LowerCase == "abcdefghijklmnopqrstuvwxyz"

Digits == "0123456789"

IndexIn(str, c) == CHOOSE i \in 1..Len(str) : SubSeq(str, i, i) = c

InStr(str, c) == \E i \in 1..Len(str) : SubSeq(str, i, i) = c

\* charCodeAt, for the characters place identifiers are written with.
CharCode(c) ==
    IF InStr(UpperCase, c) THEN 64 + IndexIn(UpperCase, c)
    ELSE IF InStr(LowerCase, c) THEN 96 + IndexIn(LowerCase, c)
    ELSE IF InStr(Digits, c) THEN 47 + IndexIn(Digits, c)
    ELSE IF c = "_" THEN 95
    ELSE IF c = "-" THEN 45
    ELSE 63

\* A whole number up to 2^32, as its two 16-bit halves: hi * 65536 + lo.
Num32(n) == [hi |-> n \div 65536, lo |-> n % 65536]

\* One round of the loop: hash = ((hash << 5) - hash) + char; hash = hash & hash,
\* on the two's-complement bits of hash.
HashStep(h, code) ==
    LET lo == h.lo * 31 + code
    IN  [hi |-> (h.hi * 31 + (lo \div 65536)) % 65536, lo |-> lo % 65536]

RECURSIVE HashBits(_, _)
HashBits(h, str) == IF Len(str) = 0 THEN h ELSE HashBits(HashStep(h, CharCode(Head(str))), Tail(str))

\* A faulty variant of Abs32: the result is kept within the signed 32-bit range,
\* so that -2^31 gives 2^31 - 1.
Abs32Clamped(h) ==
    IF h.hi < 32768 THEN h
    ELSE IF h.hi = 32768 /\ h.lo = 0 THEN [hi |-> 32767, lo |-> 65535]
    ELSE [hi |-> 65535 - h.hi + (IF h.lo = 0 THEN 1 ELSE 0), lo |-> (65536 - h.lo) % 65536]

\* Math.abs of the signed 32-bit number with bits h: a double, so that the result
\* for -2^31 is 2^31.
Abs32(h) ==
    IF h.hi < 32768 THEN h
    ELSE [hi |-> 65535 - h.hi + (IF h.lo = 0 THEN 1 ELSE 0), lo |-> (65536 - h.lo) % 65536]

\* String.prototype.hashCode
hashCode(str) == Abs32(HashBits(Num32(0), str))

-----------------------------------------------------------------------------
(* app/api/cafes/route.ts: generateTagsFromTypes *)

TagTypes == {"wifi", "outdoor_seating", "takeout", "dine_in", "serves_coffee", "bakery", "breakfast"}

tagMap(type) ==
    CASE type = "wifi" -> "WiFi"
      [] type = "outdoor_seating" -> "Outdoor Seating"
      [] type = "takeout" -> "Takeout"
      [] type = "dine_in" -> "Dine-in"
      [] type = "serves_coffee" -> "Coffee"
      [] type = "bakery" -> "Bakery"
      [] type = "breakfast" -> "Breakfast"
      [] type = "constructor" -> "<Object>"   \* inherited from Object.prototype: truthy
      [] OTHER -> Undefined

\* A faulty variant of Includes: the tags already held are not looked at.
IncludesNever(seq, x) == FALSE

Includes(seq, x) == \E i \in 1..Len(seq) : seq[i] = x

\* The loop of lines 59-64: the first type that maps to a tag not yet held is added.
RECURSIVE AddFirstTag(_, _)
AddFirstTag(tags, types) ==
    IF Len(types) = 0 THEN tags
    ELSE IF tagMap(Head(types)) # Undefined /\ ~Includes(tags, tagMap(Head(types)))
         THEN Append(tags, tagMap(Head(types)))
         ELSE AddFirstTag(tags, Tail(types))

generateTagsFromTypes(types) ==
    LET t1 == AddFirstTag(<<"WiFi", "Coffee">>, types)
        t2 == IF Len(t1) < 3 THEN Append(t1, "Seating") ELSE t1
    IN  SubSeq(t2, 1, IF Len(t2) < 3 THEN Len(t2) ELSE 3)

-----------------------------------------------------------------------------
(* app/api/cafes/route.ts: sorting and the record sent to the client *)

\* (a.actualDistance || 0): NaN and 0 both count as 0.
SortKey(c) == IF c.actualDistance = NaNDistance THEN 0 ELSE c.actualDistance

\* Insertion of c after every record whose key is not greater: the sort is stable.
RECURSIVE InsertByDistance(_, _)
InsertByDistance(sorted, c) ==
    IF Len(sorted) = 0 THEN <<c>>
    ELSE IF SortKey(sorted[Len(sorted)]) <= SortKey(c) THEN Append(sorted, c)
    ELSE Append(InsertByDistance(SubSeq(sorted, 1, Len(sorted) - 1), c), sorted[Len(sorted)])

RECURSIVE SortFrom(_, _)
SortFrom(sorted, rest) ==
    IF Len(rest) = 0 THEN sorted ELSE SortFrom(InsertByDistance(sorted, Head(rest)), Tail(rest))

\* A faulty variant of SortByDistance: the list is left in the order it was built.
SortByDistanceNot(cafes) == cafes

\* A faulty variant of SortByDistance: an unstable sort, records with equal keys
\* come out in the reverse of the order they went in.
SortByDistanceUnstable(cafes) ==
    LET backwards == [i \in 1..Len(cafes) |-> cafes[Len(cafes) + 1 - i]]
    IN  SortFrom(<<>>, backwards)

\* cafes.sort((a, b) => (a.actualDistance || 0) - (b.actualDistance || 0))
SortByDistance(cafes) == SortFrom(<<>>, cafes)

\* ({ actualDistance, ...cafe }) => cafe
DropActualDistance(c) ==
    [id |-> c.id, googlePlaceId |-> c.googlePlaceId, name |-> c.name, address |-> c.address,
     latitude |-> c.latitude, longitude |-> c.longitude, rating |-> c.rating,
     priceLevel |-> c.priceLevel, distance |-> c.distance, crowdLevel |-> c.crowdLevel,
     predictedWait |-> c.predictedWait, tags |-> c.tags, aiScore |-> c.aiScore,
     cached |-> c.cached, openNow |-> c.openNow]

MapDrop(cafes) == [i \in 1..Len(cafes) |-> DropActualDistance(cafes[i])]

\* `${a}-${b} min`
WaitLabel(a, b) == ToString(a) \o "-" \o ToString(b) \o " min"

-----------------------------------------------------------------------------
(* app/api/cafes/route.ts: generateMockCafes *)

CAFE_NAMES ==
    <<"Blue Bottle Coffee", "Starbucks Reserve", "Peet's Coffee", "Local Grounds", "The Daily Grind",
      "Sunrise Cafe", "Coffee House", "Bean Scene", "Espresso Bar", "Cafe Central">>
    \* (the source writes "Cafe" with an accented e)

\* A number too large to be a coordinate (a division by a vanishing cosine).
Huge == 2000 * 1000000

\* 1000 * Math.sin of an angle given in whole degrees.
SinMilliDeg(angle) == CosMilli((90 - angle) * 100000)

CosMilliDeg(angle) == CosMilli(angle * 100000)

\* (distanceKm / 111) * Math.cos(angleRad), in 1/100000 degree
LatOffset(dist, angle) == (dist * 100 * CosMilliDeg(angle)) \div 111000

\* (distanceKm / (111 * Math.cos(lat * Math.PI / 180))) * Math.sin(angleRad), in 1/100000 degree
LngOffset(dist, angle, lat) ==
    IF CosMilli(lat) = 0
    THEN (IF SinMilliDeg(angle) < 0 THEN -Huge ELSE Huge)
    ELSE (dist * 100 * SinMilliDeg(angle)) \div (111 * CosMilli(lat))

\* What Math.random() decides for one mock cafe: the record of its draws.
\*   dist    Math.random() * 5 km, in metres            0..4999
\*   angle   Math.random() * 360, in degrees            0..359
\*   addr    Math.floor(Math.random() * 9999)           0..9998
\*   rating  (Math.random() * 1.5 + 3.5).toFixed(1)     35..50 (tenths)
\*   price   Math.floor(Math.random() * 3) + 1          1..3
\*   crowd   Math.floor(Math.random() * 5) + 1          1..5
\*   waitLo  Math.floor(Math.random() * 10) + 2         2..11
\*   waitHi  Math.floor(Math.random() * 10) + 8         8..17
\*   ai      Math.floor(Math.random() * 20) + 80        80..99
MockCafe(i, lat, lng, d) ==
    [id |-> Num32(i),
     googlePlaceId |-> "mock_" \o ToString(i),
     name |-> CAFE_NAMES[((i - 1) % Len(CAFE_NAMES)) + 1] \o " (Mock)",
     address |-> ToString(d.addr) \o " Main St (Mock Address)",
     latitude |-> lat + LatOffset(d.dist, d.angle),
     longitude |-> lng + LngOffset(d.dist, d.angle, lat),
     rating |-> d.rating,
     priceLevel |-> d.price,
     distance |-> formatDistance(d.dist),
     crowdLevel |-> d.crowd,
     predictedWait |-> WaitLabel(d.waitLo, d.waitHi),
     tags |-> <<"WiFi", "Coffee", "Seating">>,
     aiScore |-> d.ai,
     cached |-> FALSE,
     openNow |-> TRUE,
     actualDistance |-> d.dist]

\* The cafes array after the loop of lines 224-252; batch[i] holds the draws of cafe i.
MockBuilt(lat, lng, batch) == [i \in 1..MOCK_COUNT |-> MockCafe(i, lat, lng, batch[i])]

\* The array after the sort of line 254, actualDistance still attached.
MockSorted(lat, lng, batch) == SortByDistance(MockBuilt(lat, lng, batch))

generateMockCafes(lat, lng, batch) == MapDrop(MockSorted(lat, lng, batch))

-----------------------------------------------------------------------------
(* app/api/cafes/route.ts: fetchRealCafesFromGoogle *)

\* A place of the provider's answer is a record of its fields; place.absent names the
\* fields the provider left out (their values are then not read).
Has(place, f) == f \notin place.absent

\* The callback of data.results.map throws a TypeError on a place without geometry,
\* without geometry.location or without place_id.
Transformable(place) == Has(place, "geometry") /\ Has(place, "place_id")

PlaceDistance(lat, lng, place) ==
    IF Has(place, "lat") /\ Has(place, "lng")
    THEN calculateDistance(lat, lng, place.lat, place.lng)
    ELSE NaNDistance

\* place.opening_hours?.open_now ?? true
IsOpen(place) ==
    IF Has(place, "opening_hours") /\ Has(place, "open_now") THEN place.open_now ELSE TRUE

\* place.business_status || 'OPERATIONAL'
BusinessStatus(place) ==
    IF Has(place, "business_status") /\ place.business_status # ""
    THEN place.business_status ELSE "OPERATIONAL"

\* A faulty variant of ActuallyOpen: the business status is not looked at.
ActuallyOpenWhateverStatus(place) == IsOpen(place)

\* businessStatus === 'OPERATIONAL' && isOpen
ActuallyOpen(place) == BusinessStatus(place) = "OPERATIONAL" /\ IsOpen(place)

\* place.vicinity || place.formatted_address || 'Address not available'
PlaceAddress(place) ==
    IF Has(place, "vicinity") /\ place.vicinity # "" THEN place.vicinity
    ELSE IF Has(place, "formatted_address") /\ place.formatted_address # "" THEN place.formatted_address
    ELSE "Address not available"

\* The record built by lines 153-187 for one place; d holds the draws of Math.random():
\* d.crowd in 1..5, d.waitLo in 2..11, d.waitHi in 8..17, d.ai in 80..99.
TransformPlace(lat, lng, place, d) ==
    [id |-> hashCode(place.place_id),
     googlePlaceId |-> place.place_id,
     name |-> IF Has(place, "name") THEN place.name ELSE Undefined,
     address |-> PlaceAddress(place),
     latitude |-> IF Has(place, "lat") THEN place.lat ELSE Huge,
     longitude |-> IF Has(place, "lng") THEN place.lng ELSE Huge,
     rating |-> IF Has(place, "rating") THEN place.rating ELSE 0,
     priceLevel |-> IF Has(place, "price_level") /\ place.price_level # 0 THEN place.price_level ELSE 2,
     distance |-> formatDistance(PlaceDistance(lat, lng, place)),
     crowdLevel |-> IF ActuallyOpen(place) THEN d.crowd ELSE 0,
     predictedWait |-> IF ActuallyOpen(place) THEN WaitLabel(d.waitLo, d.waitHi) ELSE "Closed",
     tags |-> generateTagsFromTypes(IF Has(place, "types") THEN place.types ELSE <<>>),
     aiScore |-> d.ai,
     cached |-> FALSE,
     openNow |-> ActuallyOpen(place),
     actualDistance |-> PlaceDistance(lat, lng, place)]

\* The array of line 190: the transformed places sorted, actualDistance still attached.
PlacesSorted(lat, lng, results, draws) ==
    SortByDistance([i \in 1..Len(results) |-> TransformPlace(lat, lng, results[i], draws[i])])

\* return { cafes: generateMockCafes(lat, lng), nextPageToken: undefined }
\* (threw: the promise is rejected instead; no path of the function does that)
MockResult(lat, lng, batch) ==
    [cafes |-> generateMockCafes(lat, lng, batch), nextPageToken |-> Undefined, threw |-> FALSE]

\* !apiKey || apiKey === 'YOUR_API_KEY_HERE'
NoCredential(key) == key = "" \/ key = "YOUR_API_KEY_HERE"

\* A faulty variant of BodyResult: an answer without results falls back to the mock batch.
BodyResultMockOnEmpty(lat, lng, body, batch, draws) ==
    IF body.kind # "json" THEN MockResult(lat, lng, batch)
    ELSE IF body.status \notin {"OK", "ZERO_RESULTS"} THEN MockResult(lat, lng, batch)
    ELSE IF ~body.hasResults \/ Len(body.results) = 0 THEN MockResult(lat, lng, batch)
    ELSE IF \E i \in 1..Len(body.results) : ~Transformable(body.results[i])
         THEN MockResult(lat, lng, batch)
    ELSE [cafes |-> MapDrop(PlacesSorted(lat, lng, body.results, draws)),
          nextPageToken |-> body.next_page_token, threw |-> FALSE]

\* A faulty variant of BodyResult: no try/catch, a throw rejects the adapter's promise.
BodyResultNoCatch(lat, lng, body, batch, draws) ==
    IF body.kind # "json" THEN [cafes |-> <<>>, nextPageToken |-> Undefined, threw |-> TRUE]
    ELSE IF body.status = "REQUEST_DENIED" THEN MockResult(lat, lng, batch)
    ELSE IF body.status # "OK" /\ body.status # "ZERO_RESULTS" THEN MockResult(lat, lng, batch)
    ELSE IF ~body.hasResults \/ Len(body.results) = 0
         THEN [cafes |-> <<>>, nextPageToken |-> Undefined, threw |-> FALSE]
    ELSE IF \E i \in 1..Len(body.results) : ~Transformable(body.results[i])
         THEN [cafes |-> <<>>, nextPageToken |-> Undefined, threw |-> TRUE]
    ELSE [cafes |-> MapDrop(PlacesSorted(lat, lng, body.results, draws)),
          nextPageToken |-> body.next_page_token, threw |-> FALSE]

\* What the function returns once response.json() has settled (lines 126-210).
\* body.kind: "json" (an object), "null" (JSON null: reading data.status throws) or
\* "unparsable" (response.json() rejects); a throw lands in the catch of line 197.
BodyResult(lat, lng, body, batch, draws) ==
    IF body.kind # "json" THEN MockResult(lat, lng, batch)
    ELSE IF body.status = "REQUEST_DENIED" THEN MockResult(lat, lng, batch)
    ELSE IF body.status # "OK" /\ body.status # "ZERO_RESULTS" THEN MockResult(lat, lng, batch)
    ELSE IF ~body.hasResults \/ Len(body.results) = 0
         THEN [cafes |-> <<>>, nextPageToken |-> Undefined, threw |-> FALSE]
    ELSE IF \E i \in 1..Len(body.results) : ~Transformable(body.results[i])
         THEN MockResult(lat, lng, batch)
    ELSE [cafes |-> MapDrop(PlacesSorted(lat, lng, body.results, draws)),
          nextPageToken |-> body.next_page_token, threw |-> FALSE]

-----------------------------------------------------------------------------
(* app/api/cafes/route.ts: GET, the request and the response *)

Handlers == {1, 2}

\* A query parameter that is read as a number: searchParams.get(name) is null
\* ("absent"), the empty string ("empty"), a text that starts with no number ("text")
\* or the decimal text of val ("num").
NumParam(kind, val) == [kind |-> kind, val |-> val]

\* parseFloat(searchParams.get(name) || '0'): a number, or NaN.
ParseFloat(p) ==
    IF p.kind = "num" THEN [nan |-> FALSE, val |-> p.val]
    ELSE IF p.kind = "text" THEN [nan |-> TRUE, val |-> 0]
    ELSE [nan |-> FALSE, val |-> 0]

\* parseInt(searchParams.get('radius') || '25000')
ParseRadius(p) ==
    IF p.kind = "num" THEN [nan |-> FALSE, val |-> p.val]
    ELSE IF p.kind = "text" THEN [nan |-> TRUE, val |-> 0]
    ELSE [nan |-> FALSE, val |-> DEFAULT_RADIUS]

\* !x for a number: 0 and NaN are falsy.
Falsy(n) == n.nan \/ n.val = 0

\* searchParams.get('query') || ''
QueryOf(r) == IF r.query = Undefined THEN "" ELSE r.query

\* searchParams.get('pageToken') || undefined
PageTokenOf(r) == IF r.pageToken = "" THEN Undefined ELSE r.pageToken

HasPageToken(r) == PageTokenOf(r) # Undefined

\* A faulty variant of Rejected: only a missing or zero latitude is refused.
RejectedLatOnly(r) == Falsy(ParseFloat(r.lat))

\* if (!latitude || !longitude)
Rejected(r) == Falsy(ParseFloat(r.lat)) \/ Falsy(ParseFloat(r.lng))

\* const cacheKey = getCacheKey(params) + (pageToken ? `-${pageToken}` : '')
CacheKeyOf(r) ==
    getCacheKey(ParseFloat(r.lat).val, ParseFloat(r.lng).val, ParseRadius(r.radius).val, QueryOf(r))
        \o (IF HasPageToken(r) THEN "-" \o PageTokenOf(r) ELSE "")

NoMeta ==
    [count |-> 0, cacheHit |-> FALSE, cacheSource |-> "none", responseTime |-> 0,
     timestamp |-> 0, hasMore |-> FALSE]

\* NextResponse.json({ success: false, error, message? }, { status })
ErrorResponse(status, error, message) ==
    [status |-> status, success |-> FALSE, error |-> error, message |-> message,
     data |-> <<>>, nextPageToken |-> Undefined, meta |-> NoMeta]

NoResponse == ErrorResponse(0, "", Undefined)

\* A faulty variant of SuccessResponse: the assignment of line 289 is left out, the
\* source reads 'none' on a hit too.
SuccessResponseNoSource(result, cacheHit, cacheSource, startTime, t) ==
    [status |-> 200, success |-> TRUE, error |-> Undefined, message |-> Undefined,
     data |-> result.cafes, nextPageToken |-> result.nextPageToken,
     meta |-> [count |-> Len(result.cafes), cacheHit |-> cacheHit, cacheSource |-> "none",
               responseTime |-> t - startTime, timestamp |-> t,
               hasMore |-> result.nextPageToken # Undefined /\ result.nextPageToken # ""]]

\* NextResponse.json({ success: true, data, nextPageToken, meta }) of lines 310-322
SuccessResponse(result, cacheHit, cacheSource, startTime, t) ==
    [status |-> 200, success |-> TRUE, error |-> Undefined, message |-> Undefined,
     data |-> result.cafes, nextPageToken |-> result.nextPageToken,
     meta |-> [count |-> Len(result.cafes), cacheHit |-> cacheHit, cacheSource |-> cacheSource,
               responseTime |-> t - startTime, timestamp |-> t,
               hasMore |-> result.nextPageToken # Undefined /\ result.nextPageToken # ""]]

\* cachedData && cachedData.cafes && cachedData.cafes.length > 0, for the value of get()
UsableHit(m, k, t) ==
    /\ MapHas(m, k)
    /\ ~Expired(MapGet(m, k), t)
    /\ Len(MapGet(m, k).data.cafes) > 0

\* A faulty variant of ChecksCache: a request with a page token is looked up too.
ChecksCacheAlways(r) == TRUE

\* if (!pageToken): the request is looked up in the cache
ChecksCache(r) == ~HasPageToken(r)

\* A faulty variant of StoresResult: a paginated result is stored too.
StoresResultAlways(r, result) == Len(result.cafes) > 0

\* A faulty variant of StoresResult: an empty result is stored too.
StoresResultEmpty(r, result) == ~HasPageToken(r)

\* A faulty variant of StoresResult: a list of generateMockCafes is not stored.
StoresResultAuthoritative(r, result) ==
    /\ ~HasPageToken(r)
    /\ Len(result.cafes) > 0
    /\ \/ Len(result.cafes[1].googlePlaceId) < 5
       \/ SubSeq(result.cafes[1].googlePlaceId, 1, 5) # "mock_"

\* if (!pageToken && result.cafes.length > 0): the result is written through
StoresResult(r, result) == ~HasPageToken(r) /\ Len(result.cafes) > 0

-----------------------------------------------------------------------------
(* The inputs of the exploration *)

\* The draws of Math.random() for one cafe.
Draw(dist, angle, addr, rating, price, crowd, waitLo, waitHi, ai) ==
    [dist |-> dist, angle |-> angle, addr |-> addr, rating |-> rating, price |-> price,
     crowd |-> crowd, waitLo |-> waitLo, waitHi |-> waitHi, ai |-> ai]

\* Two batches of draws for generateMockCafes: distances falling with i (the sort has
\* to reverse them, two of them equal), and distances rising with i.
BatchFalling == [i \in 1..MOCK_COUNT |-> Draw(4999 - 500 * (i \div 2), (90 * i) % 360, 7 * i, 35 + i, 1 + (i % 3), 1 + (i % 5), 11, 8, 80 + i)]

BatchRising == [i \in 1..MOCK_COUNT |-> Draw(499 * (i - 1), (45 * i) % 360, 9998, 50, 3, 5, 2, 17, 99)]

MockBatches == {BatchFalling, BatchRising}

\* The draws of Math.random() for the places of one answer.
PlaceDraws ==
    {[i \in 1..3 |-> Draw(0, 0, 0, 0, 0, 1 + ((i + k) % 5), 2 + k, 8 + k, 80 + k)] : k \in {0, 9}}

Place(id, name, lat, lng, open, status, types, absent) ==
    [place_id |-> id, name |-> name, vicinity |-> "1 Market St", formatted_address |-> "1 Market St, SF",
     lat |-> lat, lng |-> lng, rating |-> 45, price_level |-> 0, open_now |-> open,
     business_status |-> status, types |-> types, absent |-> absent]

PlaceFar == Place("ChIJfar", "Far Beans", 3778490, -12241940, TRUE, "OPERATIONAL", <<"cafe", "bakery">>, {"price_level", "business_status"})

PlaceNear == Place("ChIJnear", "Near Beans", 3777590, -12241940, FALSE, "OPERATIONAL", <<"cafe">>, {"vicinity"})

PlaceShut == Place("ChIJshut", "Shut Beans", 3777590, -12241940, TRUE, "CLOSED_TEMPORARILY", <<>>, {"opening_hours", "types"})

PlaceAlways == Place("ChIJalways", "Always Beans", 3777490, -12241840, FALSE, "OPERATIONAL", <<"cafe", "cafe", "bar">>, {"opening_hours", "open_now"})

PlaceBroken == Place("ChIJbad", "No Geometry", 0, 0, TRUE, "OPERATIONAL", <<>>, {"geometry", "lat", "lng"})

\* What response.json() settles with.
Body(kind, status, hasResults, results, token) ==
    [kind |-> kind, status |-> status, hasResults |-> hasResults, results |-> results,
     next_page_token |-> token]

Bodies ==
    {Body("unparsable", Undefined, FALSE, <<>>, Undefined),
     Body("null", Undefined, FALSE, <<>>, Undefined),
     Body("json", "REQUEST_DENIED", FALSE, <<>>, Undefined),
     Body("json", "OVER_QUERY_LIMIT", TRUE, <<>>, Undefined),
     Body("json", Undefined, TRUE, <<PlaceNear>>, Undefined),
     Body("json", "OK", TRUE, <<>>, Undefined),
     Body("json", "ZERO_RESULTS", FALSE, <<>>, Undefined),
     Body("json", "OK", TRUE, <<PlaceFar, PlaceNear, PlaceShut>>, "next1"),
     Body("json", "OK", TRUE, <<PlaceShut, PlaceFar, PlaceNear>>, Undefined),
     Body("json", "OK", TRUE, <<PlaceAlways>>, ""),
     Body("json", "OK", TRUE, <<PlaceNear, PlaceBroken>>, Undefined)}

\* How the fetch of line 113 settles: it rejects (network), it rejects because the
\* timer of line 111 aborted it, it resolves with a status outside 2xx, or it resolves.
FetchOutcomes == {"reject", "abort", "http_error", "ok"}

Request(lat, lng, radius, query, pageToken) ==
    [lat |-> lat, lng |-> lng, radius |-> radius, query |-> query, pageToken |-> pageToken]

GoodLat == NumParam("num", 3777490)

GoodLng == NumParam("num", 0 - 12241940)

\* A latitude a hundredth of a degree from the pole: line 271 accepts every number
\* other than zero.
PolarLat == NumParam("num", 8999000)

ValidRequests ==
    {Request(GoodLat, GoodLng, radius, Undefined, token) :
        radius \in {NumParam("num", 5000), NumParam("absent", 0)}, token \in {Undefined, "next1"}}
    \cup {Request(PolarLat, GoodLng, NumParam("num", 5000), Undefined, Undefined)}

InvalidRequests ==
    {Request(lat, GoodLng, NumParam("num", 5000), Undefined, Undefined) :
        lat \in {NumParam("absent", 0), NumParam("text", 0)}}
    \cup {Request(GoodLat, lng, NumParam("num", 5000), Undefined, "next1") :
        lng \in {NumParam("empty", 0), NumParam("num", 0)}}

Requests == ValidRequests \cup InvalidRequests

\* The payload of the entries the cache holds when the exploration starts.
SeedData == [cafes |-> MapDrop(PlacesSorted(3777490, 0 - 12241940, <<PlaceNear>>, CHOOSE d \in PlaceDraws : TRUE)),
             nextPageToken |-> Undefined]

EmptyData == [cafes |-> <<>>, nextPageToken |-> Undefined]

\* The cache after set(first, SeedData), set("k2", SeedData), ..., set("k<n>", SeedData)
\* on the empty cache at time 0.
Seeded(n, first) ==
    [i \in 1..n |-> [key |-> IF i = 1 THEN first ELSE "k" \o ToString(i), data |-> SeedData, timestamp |-> 0]]

SeedFirstKeys == {"k1", ""}

\* The keys and payloads of the direct calls of get, set and delete.
OpKeys == {"", "k1", "k2", "x1"}

OpData == {EmptyData}

TickSteps == {1, MEMORY_CACHE_TTL, MEMORY_CACHE_TTL + 1}

\* The coordinates the requests are parsed to (lines 264-265).
Coords == {<<ParseFloat(r.lat).val, ParseFloat(r.lng).val>> : r \in Requests}

CoordsOf(r) == <<ParseFloat(r.lat).val, ParseFloat(r.lng).val>>

\* Every value generateMockCafes can give the adapter to return, by coordinates.
MockResults == [c \in Coords |-> {MockResult(c[1], c[2], batch) : batch \in MockBatches}]

\* Every value the adapter can return for an answer of the provider, by coordinates.
BodyResults ==
    [c \in Coords |->
        [body \in Bodies |->
            {BodyResult(c[1], c[2], body, batch, draws) : batch \in MockBatches, draws \in PlaceDraws}]]

-----------------------------------------------------------------------------
(* The state machine *)

KeySet(m) == {m[i].key : i \in 1..Len(m)}

\* History of the Map: a key the Map did not hold just before Map.set put it there
\* is a new insertion; every other key keeps the number of its insertion.
BornAfter(mid, after) ==
    IF after = cache THEN born
    ELSE [k \in KeySet(after) |-> IF k \in DOMAIN born /\ MapHas(mid, k) THEN born[k] ELSE inserts + 1]

InsertsAfter(mid, after) == IF KeySet(after) \subseteq KeySet(mid) THEN inserts ELSE inserts + 1

NoOp == [op |-> "none", key |-> "", by |-> 0, before |-> "none", ret |-> NullValue]

IdleLocal == [startTime |-> 0, adapterCalls |-> 0, providerCalls |-> 0, cacheGets |-> 0, cacheSets |-> 0]

NoResult == [cafes |-> <<>>, nextPageToken |-> Undefined, threw |-> FALSE]

NoCall == [phase |-> "idle"]

\* Home after its first effect (part_001 lines 9-35): mounted, nothing loaded, no
\* location yet, nothing in flight.
NoPage ==
    [located |-> FALSE, loading |-> FALSE, loadingMore |-> FALSE, nextPageToken |-> Undefined,
     cafes |-> <<>>, timers |-> <<>>, inflight |-> <<>>, clicks |-> 0, searches |-> 0]

InitWith(m, key) ==
    /\ cache = m
    /\ now = 0
    /\ born = [k \in KeySet(m) |-> CHOOSE i \in 1..Len(m) : m[i].key = k]
    /\ inserts = Len(m)
    /\ apiKey = key
    /\ pc = [h \in Handlers |-> "idle"]
    /\ req = [h \in Handlers |-> Request(GoodLat, GoodLng, NumParam("absent", 0), Undefined, Undefined)]
    /\ pending = [h \in Handlers |-> NoResult]
    /\ resp = [h \in Handlers |-> NoResponse]
    /\ local = [h \in Handlers |-> IdleLocal]
    /\ last = NoOp
    /\ budget = [requests |-> 0, ops |-> 0, ticks |-> 0]
    /\ ad = NoCall
    /\ page = NoPage

\* Date.now() moves on.
Tick ==
    /\ budget.ticks < MaxTicks
    /\ \E d \in TickSteps : now' = now + d
    /\ budget' = [budget EXCEPT !.ticks = @ + 1]
    /\ last' = NoOp
    /\ UNCHANGED <<cache, born, inserts, apiKey, pc, req, pending, resp, local, ad, page>>

\* memoryCache.get(k), called from outside the handler
CacheGet(k) ==
    /\ budget.ops < MaxCacheOps
    /\ cache' = GetMap(cache, k, now)
    /\ born' = BornAfter(cache', cache')
    /\ last' = [op |-> "get", key |-> k, by |-> 0, before |-> last.op, ret |-> GetValue(cache, k, now)]
    /\ budget' = [budget EXCEPT !.ops = @ + 1]
    /\ UNCHANGED <<now, inserts, apiKey, pc, req, pending, resp, local, ad, page>>

\* memoryCache.set(k, d), called from outside the handler
CacheSet(k, d) ==
    /\ budget.ops < MaxCacheOps
    /\ cache' = SetMap(cache, k, d, now)
    /\ born' = BornAfter(Evicted(cache), cache')
    /\ inserts' = InsertsAfter(Evicted(cache), cache')
    /\ last' = [op |-> "set", key |-> k, by |-> 0, before |-> last.op, ret |-> NullValue]
    /\ budget' = [budget EXCEPT !.ops = @ + 1]
    /\ UNCHANGED <<now, apiKey, pc, req, pending, resp, local, ad, page>>

\* memoryCache.delete(k)
CacheDelete(k) ==
    /\ budget.ops < MaxCacheOps
    /\ cache' = MapDelete(cache, k)
    /\ born' = BornAfter(cache', cache')
    /\ last' = [op |-> "delete", key |-> k, by |-> 0, before |-> last.op, ret |-> NullValue]
    /\ budget' = [budget EXCEPT !.ops = @ + 1]
    /\ UNCHANGED <<now, inserts, apiKey, pc, req, pending, resp, local, ad, page>>

\* memoryCache.clear()
CacheClear ==
    /\ budget.ops < MaxCacheOps
    /\ cache' = <<>>
    /\ born' = BornAfter(cache', cache')
    /\ last' = [op |-> "clear", key |-> "", by |-> 0, before |-> last.op, ret |-> NullValue]
    /\ budget' = [budget EXCEPT !.ops = @ + 1]
    /\ UNCHANGED <<now, inserts, apiKey, pc, req, pending, resp, local, ad, page>>

\* GET, lines 259-276: the request is refused.
Refuse(h, r) ==
    /\ Rejected(r)
    /\ resp' = [resp EXCEPT ![h] = ErrorResponse(400, "Latitude and longitude are required", Undefined)]
    /\ pc' = [pc EXCEPT ![h] = "done"]
    /\ local' = [local EXCEPT ![h] = [IdleLocal EXCEPT !.startTime = now]]
    /\ last' = [op |-> "none", key |-> "", by |-> h, before |-> last.op, ret |-> NullValue]
    /\ UNCHANGED <<cache, born, inserts, pending>>

\* GET, lines 278-293 and 307-322: the lookup finds a usable entry and it is returned.
ServeFromCache(h, r) ==
    /\ ~Rejected(r)
    /\ ChecksCache(r)
    /\ UsableHit(cache, CacheKeyOf(r), now)
    /\ resp' = [resp EXCEPT ![h] =
                  SuccessResponse(MapGet(cache, CacheKeyOf(r)).data, TRUE, "memory", now, now)]
    /\ pc' = [pc EXCEPT ![h] = "done"]
    /\ local' = [local EXCEPT ![h] = [IdleLocal EXCEPT !.startTime = now, !.cacheGets = 1]]
    /\ last' = [op |-> "get", key |-> CacheKeyOf(r), by |-> h, before |-> last.op, ret |-> GetValue(cache, CacheKeyOf(r), now)]
    /\ UNCHANGED <<cache, born, inserts, pending>>

\* GET, lines 278-298, and fetchRealCafesFromGoogle up to its first await: no usable
\* entry (or no lookup), so the adapter is called. Without a credential it resolves
\* with the mock batch; with one, the fetch of line 113 is in flight.
CallAdapter(h, r) ==
    /\ ~Rejected(r)
    /\ ~(ChecksCache(r) /\ UsableHit(cache, CacheKeyOf(r), now))
    /\ cache' = IF ChecksCache(r) THEN GetMap(cache, CacheKeyOf(r), now) ELSE cache
    /\ born' = BornAfter(cache', cache')
    /\ UNCHANGED inserts
    /\ last' = IF ChecksCache(r) THEN [op |-> "get", key |-> CacheKeyOf(r), by |-> h, before |-> last.op, ret |-> GetValue(cache, CacheKeyOf(r), now)] ELSE [op |-> "none", key |-> "", by |-> h, before |-> last.op, ret |-> NullValue]
    /\ UNCHANGED resp
    /\ IF NoCredential(apiKey)
       THEN /\ \E result \in MockResults[CoordsOf(r)] :
                  pending' = [pending EXCEPT ![h] = result]
            /\ pc' = [pc EXCEPT ![h] = "resolved"]
            /\ local' = [local EXCEPT ![h] =
                  [IdleLocal EXCEPT !.startTime = now, !.adapterCalls = 1,
                                    !.cacheGets = IF ChecksCache(r) THEN 1 ELSE 0]]
       ELSE /\ pending' = [pending EXCEPT ![h] = NoResult]
            /\ pc' = [pc EXCEPT ![h] = "fetch"]
            /\ local' = [local EXCEPT ![h] =
                  [IdleLocal EXCEPT !.startTime = now, !.adapterCalls = 1, !.providerCalls = 1,
                                    !.cacheGets = IF ChecksCache(r) THEN 1 ELSE 0]]

\* A request arrives and GET runs up to its first await or its return.
Receive(h, r) ==
    /\ pc[h] \in {"idle", "done"}
    /\ budget.requests < MaxRequests
    /\ budget' = [budget EXCEPT !.requests = @ + 1]
    /\ req' = [req EXCEPT ![h] = r]
    /\ UNCHANGED <<now, apiKey, ad, page>>
    /\ \/ Refuse(h, r)
       \/ ServeFromCache(h, r)
       \/ CallAdapter(h, r)

\* A faulty variant of OnFetchFailure: a failed call is tried once more.
OnFetchFailureRetry(calls) ==
    IF calls < 2 THEN [pc |-> "fetch", providerCalls |-> calls + 1]
    ELSE [pc |-> "resolved", providerCalls |-> calls]

\* What follows a failed fetch (line 123 and line 209): the adapter returns, having
\* made `calls` calls of fetch; there is no loop and no second call.
OnFetchFailure(calls) == [pc |-> "resolved", providerCalls |-> calls]

\* The fetch of line 113 settles (lines 113-124, or the catch of lines 197-210).
FetchSettles(h, outcome) ==
    /\ pc[h] = "fetch"
    /\ outcome = "abort" => now - local[h].startTime >= FETCH_TIMEOUT
    /\ IF outcome = "ok"
       THEN /\ pc' = [pc EXCEPT ![h] = "json"]
            /\ UNCHANGED <<pending, local>>
       ELSE /\ pc' = [pc EXCEPT ![h] = OnFetchFailure(local[h].providerCalls).pc]
            /\ local' = [local EXCEPT ![h].providerCalls = OnFetchFailure(@).providerCalls]
            /\ \E result \in MockResults[CoordsOf(req[h])] :
                  pending' = [pending EXCEPT ![h] = result]
    /\ last' = [op |-> "none", key |-> "", by |-> h, before |-> last.op, ret |-> NullValue]
    /\ UNCHANGED <<cache, now, born, inserts, apiKey, req, resp, budget, ad, page>>

\* response.json() settles and the adapter returns (lines 126-210).
BodySettles(h, body) ==
    /\ pc[h] = "json"
    /\ pc' = [pc EXCEPT ![h] = "resolved"]
    /\ \E result \in BodyResults[CoordsOf(req[h])][body] :
          pending' = [pending EXCEPT ![h] = result]
    /\ last' = [op |-> "none", key |-> "", by |-> h, before |-> last.op, ret |-> NullValue]
    /\ UNCHANGED <<cache, now, born, inserts, apiKey, req, resp, local, budget, ad, page>>

\* GET after the await of line 298: the write-through and the response (lines
\* 300-322), or the catch of lines 323-335 when the adapter's promise rejected.
Finish(h) ==
    /\ pc[h] = "resolved"
    /\ pc' = [pc EXCEPT ![h] = "done"]
    /\ IF pending[h].threw
       THEN /\ resp' = [resp EXCEPT ![h] = ErrorResponse(500, "Internal server error", "error")]
            /\ last' = [op |-> "none", key |-> "", by |-> h, before |-> last.op, ret |-> NullValue]
            /\ UNCHANGED <<cache, born, inserts, local>>
       ELSE /\ resp' = [resp EXCEPT ![h] =
                   SuccessResponse(pending[h], FALSE, "none", local[h].startTime, now)]
            /\ IF StoresResult(req[h], pending[h])
               THEN /\ cache' = SetMap(cache, CacheKeyOf(req[h]),
                                       [cafes |-> pending[h].cafes, nextPageToken |-> pending[h].nextPageToken], now)
                    /\ born' = BornAfter(Evicted(cache), cache')
                    /\ inserts' = InsertsAfter(Evicted(cache), cache')
                    /\ last' = [op |-> "set", key |-> CacheKeyOf(req[h]), by |-> h, before |-> last.op, ret |-> NullValue]
                    /\ local' = [local EXCEPT ![h].cacheSets = 1]
               ELSE /\ last' = [op |-> "none", key |-> "", by |-> h, before |-> last.op, ret |-> NullValue]
                    /\ UNCHANGED <<cache, born, inserts, local>>
    /\ UNCHANGED <<now, apiKey, req, pending, budget, ad, page>>

\* The service after start-up: the cache is empty; the credential is absent, the
\* placeholder, or a key.
Init == \E key \in {"", "YOUR_API_KEY_HERE", "AIzaSyREAL"} : InitWith(<<>>, key)

\* Requests are served, possibly two at a time, while the clock moves on.
Next ==
    \/ Tick
    \/ \E h \in Handlers, r \in Requests : Receive(h, r)
    \/ \E h \in Handlers, outcome \in FetchOutcomes : FetchSettles(h, outcome)
    \/ \E h \in Handlers, body \in Bodies : BodySettles(h, body)
    \/ \E h \in Handlers : Finish(h)

Spec == Init /\ [][Next]_vars

\* The cache alone, empty or after 99 or 100 calls of set with distinct keys.
InitCache ==
    \E n \in {0, MAX_MEMORY_CACHE_SIZE - 1, MAX_MEMORY_CACHE_SIZE}, first \in SeedFirstKeys :
        InitWith(Seeded(n, first), "")

NextCache ==
    \/ Tick
    \/ \E k \in OpKeys : CacheGet(k)
    \/ \E k \in OpKeys, d \in OpData : CacheSet(k, d)
    \/ \E k \in OpKeys : CacheDelete(k)
    \/ CacheClear

SpecCache == InitCache /\ [][NextCache]_vars

-----------------------------------------------------------------------------
(* fetchRealCafesFromGoogle on its own: one call, for each input and each way the
   provider and Math.random() can go *)

\* The batches of draws whose distances are any mix of a short and a long one.
AdBatches ==
    {[i \in 1..MOCK_COUNT |-> [BatchFalling[i] EXCEPT !.dist = f[i]]] :
        f \in [1..MOCK_COUNT -> {250, 4999}]}

AdInputs ==
    {[lat |-> lat, lng |-> 0 - 12241940, radius |-> radius, query |-> query, pageToken |-> token] :
        lat \in {3777490, 0 - 8999000}, radius \in {1000, 25000}, query \in {"", "latte"},
        token \in {Undefined, "next1"}}

NoBody == Body("unparsable", Undefined, FALSE, <<>>, Undefined)

Called(in, path, outcome, body, batch, result) ==
    [phase |-> "returned", in |-> in, path |-> path, outcome |-> outcome, body |-> body,
     batch |-> batch, result |-> result]

\* Lines 75-80: no credential.
AdapterNoCredential ==
    /\ ad.phase = "idle"
    /\ NoCredential(apiKey)
    /\ \E in \in AdInputs, batch \in AdBatches :
          ad' = Called(in, "no_credential", "none", NoBody, batch, MockResult(in.lat, in.lng, batch))
    /\ UNCHANGED <<cache, now, born, inserts, apiKey, pc, req, pending, resp, local, last, budget, page>>

\* Lines 113-124 and 197-210: the fetch rejects, is aborted, or answers outside 2xx.
AdapterFetchFails ==
    /\ ad.phase = "idle"
    /\ ~NoCredential(apiKey)
    /\ \E in \in AdInputs, outcome \in FetchOutcomes \ {"ok"}, batch \in MockBatches :
          ad' = Called(in, "fetch_failed", outcome, NoBody, batch, MockResult(in.lat, in.lng, batch))
    /\ UNCHANGED <<cache, now, born, inserts, apiKey, pc, req, pending, resp, local, last, budget, page>>

\* Lines 126-210: the fetch answers and response.json() settles with body.
AdapterAnswered ==
    /\ ad.phase = "idle"
    /\ ~NoCredential(apiKey)
    /\ \E in \in AdInputs, body \in Bodies, batch \in MockBatches, draws \in PlaceDraws :
          ad' = Called(in, "answered", "ok", body, batch, BodyResult(in.lat, in.lng, body, batch, draws))
    /\ UNCHANGED <<cache, now, born, inserts, apiKey, pc, req, pending, resp, local, last, budget, page>>

NextAdapter == AdapterNoCredential \/ AdapterFetchFails \/ AdapterAnswered

SpecAdapter == Init /\ [][NextAdapter]_vars

-----------------------------------------------------------------------------
(* getCacheKey on its own: two calls, for each pair of parameter sets *)

\* Latitudes and longitudes in 1/100000 degree, on both sides of a rounding boundary
\* of toFixed(3), on both sides of zero, and a thousandth of a degree apart. (None is
\* a boundary itself: there the digit depends on the binary value of the number.)
KeyLats == {3777440, 3777449, 3777451, 3777460, 3777549, 0 - 40, 40, 0 - 8999960}

KeyLngs == {0 - 12241940, 0 - 12241960, 17999951}

KeyParams ==
    {[latitude |-> lat, longitude |-> lng, radius |-> radius, query |-> query] :
        lat \in KeyLats, lng \in KeyLngs, radius \in {5000}, query \in {"", "latte"}}

KeysOf(p, q) ==
    [phase |-> "keys", p |-> p, q |-> q,
     kp |-> getCacheKey(p.latitude, p.longitude, p.radius, p.query),
     kq |-> getCacheKey(q.latitude, q.longitude, q.radius, q.query)]

\* getCacheKey(p) and getCacheKey(q)
CompareKeys ==
    /\ ad.phase = "idle"
    /\ \E p \in KeyParams, q \in KeyParams : ad' = KeysOf(p, q)
    /\ UNCHANGED <<cache, now, born, inserts, apiKey, pc, req, pending, resp, local, last, budget, page>>

SpecKey == Init /\ [][CompareKeys]_vars

-----------------------------------------------------------------------------
(* The handlers on a full cache: 100 entries stored under other keys *)

\* One request that is served and one that is refused.
FullRequests ==
    {Request(GoodLat, GoodLng, NumParam("num", 5000), Undefined, Undefined),
     Request(NumParam("absent", 0), GoodLng, NumParam("num", 5000), Undefined, Undefined)}

\* The cache after 100 calls of set with distinct keys, none of them a key of GET.
InitFull ==
    \E first \in SeedFirstKeys, key \in {"", "AIzaSyREAL"} :
        InitWith(Seeded(MAX_MEMORY_CACHE_SIZE, first), key)

NextFull ==
    \/ \E h \in Handlers, r \in FullRequests : Receive(h, r)
    \/ \E h \in Handlers, outcome \in FetchOutcomes : FetchSettles(h, outcome)
    \/ \E h \in Handlers, body \in Bodies : BodySettles(h, body)
    \/ \E h \in Handlers : Finish(h)

SpecFull == InitFull /\ [][NextFull]_vars

-----------------------------------------------------------------------------
(* The cache key of GET on its own: two requests, their keys compared *)

\* Requests that pass line 271, with and without query, with and without page
\* token; the query is free text and may hold a hyphen.
KeyRequests ==
    {Request(lat, GoodLng, radius, query, token) :
        lat \in {GoodLat, PolarLat},
        radius \in {NumParam("num", 5000), NumParam("absent", 0)},
        query \in {Undefined, "latte", "latte-next1", "-next1"},
        token \in {Undefined, "", "next1"}}

\* cacheKey of line 281 for request p and for request q
CompareCacheKeys ==
    /\ ad.phase = "idle"
    /\ \E p \in KeyRequests, q \in KeyRequests :
          ad' = [phase |-> "cachekeys", p |-> p, q |-> q, kp |-> CacheKeyOf(p), kq |-> CacheKeyOf(q)]
    /\ UNCHANGED <<cache, now, born, inserts, apiKey, pc, req, pending, resp, local, last, budget, page>>

SpecRequestKey == Init /\ [][CompareCacheKeys]_vars

-----------------------------------------------------------------------------
(* hashCode on its own: two identifiers hashed *)

\* Place identifiers: those of the places above, and identifiers whose hash before
\* Math.abs is -2^31, -2^31 + 1, 2^31 - 1, -1 and 0; the empty string.
Identifiers ==
    {"ChIJfar", "ChIJnear", "ChIJshut", "ChIJalways", "ChIJbad", "",
     "ChIJAOqxy_a", "ChIJAOqxy_b", "ChIJAOqxzAA", "ChIJGvrwwdf", "ChIJGvrwwdg"}

\* p.hashCode() and q.hashCode(); bits is the value of hash when the loop over p ends.
HashIdentifiers ==
    /\ ad.phase = "idle"
    /\ \E p \in Identifiers, q \in Identifiers :
          ad' = [phase |-> "hashed", p |-> p, q |-> q, bits |-> HashBits(Num32(0), p),
                 id |-> hashCode(p), idq |-> hashCode(q)]
    /\ UNCHANGED <<cache, now, born, inserts, apiKey, pc, req, pending, resp, local, last, budget, page>>

SpecHash == Init /\ [][HashIdentifiers]_vars

-----------------------------------------------------------------------------
(* The page component (part_001): searches, the load-more button, the answers *)

MaxSearches == 2

MaxClicks == 2

\* The pages the API hands out for one search: the list returned for a page token
\* (one name stands for the list), and the token returned with it.
PageOf(token) == IF token = Undefined THEN "page1" ELSE "page of " \o token

NextToken(token) ==
    IF token = Undefined THEN "next1"
    ELSE IF token = "next1" THEN "next2"
    ELSE Undefined

\* The load-more button is rendered (line 515) and not disabled (line 519).
ButtonEnabled ==
    /\ ~page.loading /\ Len(page.cafes) > 0 /\ TruthyKey(page.nextPageToken)
    /\ ~page.loadingMore

\* searchNearbyCafes(lat, lng, false, ...) up to the await of line 54, called from
\* the location callbacks or the search box, after setUserLocation.
SearchNearby ==
    /\ page.searches < MaxSearches
    /\ page' = [page EXCEPT !.located = TRUE, !.loading = TRUE, !.nextPageToken = Undefined,
                            !.inflight = Append(@, [append |-> FALSE, token |-> Undefined]),
                            !.searches = @ + 1]
    /\ UNCHANGED <<cache, now, born, inserts, apiKey, pc, req, pending, resp, local, last, budget, ad>>

\* A click on the load-more button: loadMoreCafes up to the await of line 102. The
\* call that follows the wait uses the nextPageToken of the render of the click.
LoadMoreClicked ==
    /\ page.clicks < MaxClicks
    /\ ButtonEnabled
    /\ page.located /\ TruthyKey(page.nextPageToken) /\ ~page.loadingMore
    /\ page' = [page EXCEPT !.timers = Append(@, page.nextPageToken), !.clicks = @ + 1]
    /\ UNCHANGED <<cache, now, born, inserts, apiKey, pc, req, pending, resp, local, last, budget, ad>>

\* The 2 seconds of line 102 are over: line 103 and searchNearbyCafes(lat, lng, true)
\* up to the await of line 54.
LoadMoreWaited ==
    /\ Len(page.timers) > 0
    /\ page' = [page EXCEPT !.timers = Tail(@), !.loadingMore = TRUE,
                            !.inflight = Append(@, [append |-> TRUE, token |-> Head(page.timers)])]
    /\ UNCHANGED <<cache, now, born, inserts, apiKey, pc, req, pending, resp, local, last, budget, ad>>

\* The sequence without its i-th element.
Without(seq, i) == SubSeq(seq, 1, i - 1) \o SubSeq(seq, i + 1, Len(seq))

\* The request i in flight is answered: searchNearbyCafes from line 57 to its end.
\* With success the list is replaced or appended to and the token taken over; in
\* every case the finally of lines 92-95 resets both loading flags.
ResponseArrives(i, success) ==
    /\ i \in 1..Len(page.inflight)
    /\ LET r == page.inflight[i]
       IN  page' = [page EXCEPT
                !.inflight = Without(@, i),
                !.cafes = IF ~success THEN @
                          ELSE IF r.append THEN Append(@, PageOf(r.token))
                          ELSE <<PageOf(r.token)>>,
                !.nextPageToken = IF success THEN NextToken(r.token) ELSE @,
                !.loading = FALSE,
                !.loadingMore = FALSE]
    /\ UNCHANGED <<cache, now, born, inserts, apiKey, pc, req, pending, resp, local, last, budget, ad>>

NextPage ==
    \/ SearchNearby
    \/ LoadMoreClicked
    \/ LoadMoreWaited
    \/ \E i \in 1..(MaxSearches + MaxClicks), success \in BOOLEAN : ResponseArrives(i, success)

SpecPage == Init /\ [][NextPage]_vars

-----------------------------------------------------------------------------
(* generateTagsFromTypes on its own: one call, for each list of types *)

\* The types a place may carry: the keys of tagMap, a type tagMap does not know,
\* and the name of a property every object inherits.
TypeNames == TagTypes \cup {"cafe", "constructor"}

MaxTypes == 3

\* The lists of at most MaxTypes types, repeated types included.
TypeLists == UNION {[1..n -> TypeNames] : n \in 0..MaxTypes}

\* generateTagsFromTypes(types)
GenerateTags ==
    /\ ad.phase = "idle"
    /\ \E types \in TypeLists :
          ad' = [phase |-> "tags", types |-> types, tags |-> generateTagsFromTypes(types)]
    /\ UNCHANGED <<cache, now, born, inserts, apiKey, pc, req, pending, resp, local, last, budget, page>>

SpecTags == Init /\ [][GenerateTags]_vars

-----------------------------------------------------------------------------
(* formatDistance on its own: one call, for each distance *)

MaxMeters == 2500

\* Whole numbers of metres: every one up to MaxMeters, and some of the distances a
\* search over 25 km gives.
Meters == (0..MaxMeters) \cup {5000, 16093, 16094, 24999}

\* formatDistance(m)
FormatDistance ==
    /\ ad.phase = "idle"
    /\ \E m \in Meters : ad' = [phase |-> "formatted", m |-> m, text |-> formatDistance(m)]
    /\ UNCHANGED <<cache, now, born, inserts, apiKey, pc, req, pending, resp, local, last, budget, page>>

SpecFormat == Init /\ [][FormatDistance]_vars

-----------------------------------------------------------------------------
(* The handlers with the timer of line 111, for the properties of progress *)

\* The callback of setTimeout(() => controller.abort(), 5000) runs: 5 seconds after
\* the call at the earliest, and only while the fetch of line 113 is pending, since
\* line 119 clears the timer as soon as the fetch has resolved. The fetch then
\* rejects with an AbortError and the catch of lines 197-210 returns the mock batch.
TimerFires(h) ==
    /\ pc[h] = "fetch"
    /\ now' = IF now - local[h].startTime >= FETCH_TIMEOUT THEN now
              ELSE local[h].startTime + FETCH_TIMEOUT
    /\ pc' = [pc EXCEPT ![h] = OnFetchFailure(local[h].providerCalls).pc]
    /\ local' = [local EXCEPT ![h].providerCalls = OnFetchFailure(@).providerCalls]
    /\ \E result \in MockResults[CoordsOf(req[h])] :
          pending' = [pending EXCEPT ![h] = result]
    /\ last' = [op |-> "none", key |-> "", by |-> h, before |-> last.op, ret |-> NullValue]
    /\ UNCHANGED <<cache, born, inserts, apiKey, req, resp, budget, ad, page>>

NextLive ==
    \/ Tick
    \/ \E h \in Handlers, r \in Requests : Receive(h, r)
    \/ \E h \in Handlers, outcome \in FetchOutcomes : FetchSettles(h, outcome)
    \/ \E h \in Handlers, body \in Bodies : BodySettles(h, body)
    \/ \E h \in Handlers : Finish(h)
    \/ \E h \in Handlers : TimerFires(h)

\* The event loop runs what is ready: an armed timer fires and a handler whose await
\* has settled goes on. The provider owes nothing: it may never answer, or never
\* finish the body of its answer.
SpecLive ==
    /\ Init
    /\ [][NextLive]_vars
    /\ \A h \in Handlers : WF_vars(TimerFires(h)) /\ WF_vars(Finish(h))

-----------------------------------------------------------------------------
(* Properties of the request handler (under Spec) *)

\* The step is handler h receiving a request (GET up to its first await or return).
Receives(h) == budget'.requests = budget.requests + 1 /\ last'.by = h

\* The request has usable coordinates: lat and lng are numbers other than zero.
GoodCoordinates(r) == r.lat.kind = "num" /\ r.lat.val # 0 /\ r.lng.kind = "num" /\ r.lng.val # 0

CarriesPageToken(r) == r.pageToken # Undefined /\ r.pageToken # ""

\* Entry i of the cache is the one a request r without a page token is looked up
\* under, it is not older than the TTL, and its list is not empty.
FreshEntryFor(r, i) ==
    /\ cache[i].key = getCacheKey(r.lat.val, r.lng.val, ParseRadius(r.radius).val, QueryOf(r))
    /\ now - cache[i].timestamp <= MEMORY_CACHE_TTL
    /\ Len(cache[i].data.cafes) > 0

\* C1, first part: a request without a page token whose key is held by an entry not
\* older than the TTL with a non-empty list is answered from that entry: no adapter
\* or provider call, the stored points and continuation token, cacheHit = true.
C1_HitStep ==
    \A h \in Handlers : \A i \in 1..Len(cache) :
        (Receives(h) /\ GoodCoordinates(req'[h]) /\ ~CarriesPageToken(req'[h]) /\ FreshEntryFor(req'[h], i))
        => /\ pc'[h] = "done"
           /\ resp'[h].status = 200 /\ resp'[h].success
           /\ resp'[h].data = cache[i].data.cafes
           /\ resp'[h].nextPageToken = cache[i].data.nextPageToken
           /\ resp'[h].meta.cacheHit
           /\ local'[h].adapterCalls = 0 /\ local'[h].providerCalls = 0
           /\ cache' = cache

\* C1, second part: when exactly two requests were made, both the same, without a
\* page token and with no credential configured, the second one received after the
\* first was answered and no later than the TTL after it, the first was answered
\* with cacheHit = false and the second with cacheHit = true and the same data.
C1_TwoRequests ==
    \A a \in Handlers : \A b \in Handlers \ {a} :
        (/\ budget.requests = 2 /\ NoCredential(apiKey)
         /\ pc[a] = "done" /\ pc[b] = "done" /\ req[a] = req[b]
         /\ GoodCoordinates(req[a]) /\ ~CarriesPageToken(req[a])
         /\ resp[a].meta.timestamp < local[b].startTime
         /\ local[b].startTime - resp[a].meta.timestamp <= MEMORY_CACHE_TTL)
        => /\ resp[a].success /\ ~resp[a].meta.cacheHit
           /\ resp[b].success /\ resp[b].meta.cacheHit
           /\ resp[b].data = resp[a].data

\* C1: a cache hit serves the stored payload verbatim without a provider call, and
\* two identical requests within the TTL give cacheHit false, then true, same data.
C1_CacheHitVerbatim == [][C1_HitStep]_vars /\ []C1_TwoRequests

\* C1 witness: the second of two identical requests was served from the entry the
\* first one stored exactly the TTL earlier.
C1_Witness ==
    /\ budget.requests = 2 /\ NoCredential(apiKey)
    /\ pc[1] = "done" /\ pc[2] = "done" /\ req[1] = req[2]
    /\ ~resp[1].meta.cacheHit /\ resp[2].meta.cacheHit
    /\ Len(resp[2].data) = MOCK_COUNT /\ resp[2].data = resp[1].data
    /\ local[2].startTime - resp[1].meta.timestamp = MEMORY_CACHE_TTL

\* C2: no step of a request that carries a page token reads or writes the cache,
\* and when such a request is answered with data, the data comes from one adapter
\* call made for it (cacheHit = false).
C2_Step ==
    \A h \in Handlers :
        (last'.by = h /\ GoodCoordinates(req'[h]) /\ CarriesPageToken(req'[h]))
        => /\ cache' = cache
           /\ last'.op = "none"
           /\ local'[h].cacheGets = 0 /\ local'[h].cacheSets = 0
           /\ pc'[h] # "idle" => local'[h].adapterCalls = 1
           /\ pc'[h] = "done" => (resp'[h].success /\ ~resp'[h].meta.cacheHit
                                   /\ resp'[h].data = pending[h].cafes)

C2_PageTokenBypassesCache == [][C2_Step]_vars

\* C2 witness: a request with a page token was answered from an adapter call while
\* the cache held a fresh entry for the same request without the page token.
C2_Witness ==
    \E h \in Handlers : \E i \in 1..Len(cache) :
        /\ pc[h] = "done" /\ CarriesPageToken(req[h]) /\ resp[h].success
        /\ local[h].adapterCalls = 1 /\ ~resp[h].meta.cacheHit
        /\ FreshEntryFor(req[h], i)

\* The lat or lng parameter is absent, zero or not parseable as a number.
BadCoordinates(r) ==
    \/ r.lat.kind \in {"absent", "empty", "text"} \/ (r.lat.kind = "num" /\ r.lat.val = 0)
    \/ r.lng.kind \in {"absent", "empty", "text"} \/ (r.lng.kind = "num" /\ r.lng.val = 0)

\* C3: a request whose lat or lng is absent, zero or unparseable is answered at once
\* with HTTP 400 and "Latitude and longitude are required"; no adapter or provider
\* call is made and the cache is neither read nor changed.
C3_Step ==
    \A h \in Handlers :
        (Receives(h) /\ BadCoordinates(req'[h]))
        => /\ pc'[h] = "done"
           /\ resp'[h].status = 400 /\ ~resp'[h].success
           /\ resp'[h].error = "Latitude and longitude are required"
           /\ local'[h].adapterCalls = 0 /\ local'[h].providerCalls = 0
           /\ local'[h].cacheGets = 0 /\ local'[h].cacheSets = 0
           /\ last'.op = "none"
           /\ cache' = cache

C3_BadCoordinatesRefused == [][C3_Step]_vars

\* C3 witness: a request with a zero lng was refused while the cache held an entry.
C3_Witness ==
    \E h \in Handlers :
        /\ pc[h] = "done" /\ resp[h].status = 400
        /\ req[h].lng.kind = "num" /\ req[h].lng.val = 0
        /\ Len(cache) > 0

\* C4: every response to a request with non-zero numeric lat and lng is a success
\* (HTTP 200, success = true), whatever the provider did.
C4_ProviderNeverFailsRequest ==
    \A h \in Handlers :
        (pc[h] = "done" /\ GoodCoordinates(req[h])) => (resp[h].success /\ resp[h].status = 200)

\* The list is a batch of generateMockCafes: MOCK_COUNT points marked as mock.
IsMockBatch(cafes) ==
    /\ Len(cafes) = MOCK_COUNT
    /\ \A i \in 1..Len(cafes) :
          /\ Len(cafes[i].name) >= 7
          /\ SubSeq(cafes[i].name, Len(cafes[i].name) - 6, Len(cafes[i].name)) = " (Mock)"
          /\ Len(cafes[i].googlePlaceId) > 5
          /\ SubSeq(cafes[i].googlePlaceId, 1, 5) = "mock_"

\* C4 witness: a provider call was made for a request, the provider failed, and the
\* request was answered with success and the mock batch.
C4_Witness ==
    \E h \in Handlers :
        /\ pc[h] = "done" /\ local[h].providerCalls = 1
        /\ resp[h].success /\ IsMockBatch(resp[h].data)

\* C17 (as claimed): every point of a response served from the cache has cached =
\* true, and every point of a response built from an adapter call has cached = false.
C17_CachedFlagTellsSource ==
    \A h \in Handlers :
        (pc[h] = "done" /\ resp[h].success)
        => \A i \in 1..Len(resp[h].data) : resp[h].data[i].cached = resp[h].meta.cacheHit

\* C20 (as claimed): every point of every success response has its latitude in
\* [-90, 90] and its longitude in [-180, 180] (coordinates in 1/100000 degree).
C20_CoordinatesInRange ==
    \A h \in Handlers :
        (pc[h] = "done" /\ resp[h].success)
        => \A i \in 1..Len(resp[h].data) :
              /\ resp[h].data[i].latitude \in (0 - 9000000)..9000000
              /\ resp[h].data[i].longitude \in (0 - 18000000)..18000000

-----------------------------------------------------------------------------
(* Properties of the adapter (under SpecAdapter) *)

\* The draw of Math.random() the i-th returned point got its distance from: the
\* generator numbers its points 1..MOCK_COUNT in id.
GeneratedDistance(cafes, i) == ad.batch[cafes[i].id.lo].dist

\* C5: without a credential (absent or the placeholder) every call of the adapter
\* returns exactly 10 points, each marked as mock, in ascending order of their
\* generated distance, and no continuation token.
C5_NoCredentialMockBatch ==
    (ad.phase = "returned" /\ (apiKey = "" \/ apiKey = "YOUR_API_KEY_HERE"))
    => /\ Len(ad.result.cafes) = 10
       /\ IsMockBatch(ad.result.cafes)
       /\ {ad.result.cafes[i].id.lo : i \in 1..Len(ad.result.cafes)} = 1..10
       /\ \A i \in 1..Len(ad.result.cafes) : ad.result.cafes[i].id.hi = 0
       /\ \A i \in 1..(Len(ad.result.cafes) - 1) :
             GeneratedDistance(ad.result.cafes, i) <= GeneratedDistance(ad.result.cafes, i + 1)
       /\ ad.result.nextPageToken = Undefined

\* C5 witness: a call with the placeholder credential and a page token, whose draws
\* were not in ascending order, returned.
C5_Witness ==
    /\ ad.phase = "returned" /\ apiKey = "YOUR_API_KEY_HERE"
    /\ ad.in.pageToken = "next1" /\ ad.in.radius = 1000
    /\ ad.batch[1].dist > ad.batch[2].dist /\ ad.batch[2].dist < ad.batch[3].dist
    /\ Len(ad.result.cafes) = 10

\* C6: an answer with status OK or ZERO_RESULTS and an empty or missing result list
\* gives an empty list and no continuation token (no mock data); an answer with
\* REQUEST_DENIED or any other status gives the mock batch.
C6_EmptyVersusDenied ==
    (ad.phase = "returned" /\ ad.path = "answered" /\ ad.body.kind = "json")
    => /\ (ad.body.status \in {"OK", "ZERO_RESULTS"}
            /\ (~ad.body.hasResults \/ Len(ad.body.results) = 0))
          => (ad.result.cafes = <<>> /\ ad.result.nextPageToken = Undefined)
       /\ ad.body.status \notin {"OK", "ZERO_RESULTS"}
          => (IsMockBatch(ad.result.cafes) /\ ad.result.nextPageToken = Undefined)

\* C6 witness: the provider answered ZERO_RESULTS without a result list and the
\* adapter returned the empty list.
C6_Witness ==
    /\ ad.phase = "returned" /\ ad.path = "answered" /\ ad.body.kind = "json"
    /\ ad.body.status = "ZERO_RESULTS" /\ ~ad.body.hasResults
    /\ ad.result.cafes = <<>>

\* The provider answered with a list of places, each with a place_id and a location.
AnsweredWithPlaces ==
    /\ ad.phase = "returned" /\ ad.path = "answered" /\ ad.body.kind = "json"
    /\ ad.body.status \in {"OK", "ZERO_RESULTS"}
    /\ ad.body.hasResults /\ Len(ad.body.results) > 0
    /\ \A k \in 1..Len(ad.body.results) : Transformable(ad.body.results[k])

\* The position, in the provider's list, of the place a returned record was made of.
PlaceOf(c) == CHOOSE k \in 1..Len(ad.body.results) : ad.body.results[k].place_id = c.googlePlaceId

\* The distance of a returned record's place from the origin of the call.
DistanceOf(c) ==
    calculateDistance(ad.in.lat, ad.in.lng, ad.body.results[PlaceOf(c)].lat, ad.body.results[PlaceOf(c)].lng)

\* C14: the adapter returns one record per place of the provider's list, in
\* ascending order of the distance computed from the origin, and records with the
\* same distance in the order the provider listed them.
C14_SortedByDistanceStable ==
    AnsweredWithPlaces
    => LET res == ad.result.cafes
       IN  /\ Len(res) = Len(ad.body.results)
           /\ {res[i].googlePlaceId : i \in 1..Len(res)}
                = {ad.body.results[k].place_id : k \in 1..Len(ad.body.results)}
           /\ \A i \in 1..Len(res) : \A j \in (i + 1)..Len(res) :
                 /\ DistanceOf(res[i]) <= DistanceOf(res[j])
                 /\ DistanceOf(res[i]) = DistanceOf(res[j]) => PlaceOf(res[i]) < PlaceOf(res[j])

\* C14 witness: the provider listed a far place between two places at one and the
\* same distance, and the adapter returned the two first, in the provider's order.
C14_Witness ==
    /\ AnsweredWithPlaces
    /\ ad.in.lat = 3777490
    /\ ad.body.results = <<PlaceShut, PlaceFar, PlaceNear>>
    /\ DistanceOf(ad.result.cafes[1]) = DistanceOf(ad.result.cafes[2])
    /\ DistanceOf(ad.result.cafes[2]) < DistanceOf(ad.result.cafes[3])
    /\ [i \in 1..3 |-> ad.result.cafes[i].googlePlaceId] = <<"ChIJshut", "ChIJnear", "ChIJfar">>

\* C15 (as claimed): every point of a mock batch the adapter returns was generated
\* at a distance that does not exceed the radius of the call.
C15_MockWithinRadius ==
    (ad.phase = "returned" /\ IsMockBatch(ad.result.cafes))
    => \A i \in 1..Len(ad.result.cafes) : GeneratedDistance(ad.result.cafes, i) <= ad.in.radius

\* The provider's answer says the place is open: its business status is OPERATIONAL
\* or missing, and its open_now is true or missing.
SaidOpen(place) ==
    /\ ("business_status" \in place.absent \/ place.business_status = "OPERATIONAL")
    /\ ("opening_hours" \in place.absent \/ "open_now" \in place.absent \/ place.open_now)

\* C18: every record made of a provider result has openNow = true exactly when the
\* place's business status is OPERATIONAL or missing and its open_now is true or
\* missing; crowdLevel is 0 exactly when openNow is false, and in 1..5 exactly when
\* openNow is true.
C18_CrowdLevelFollowsOpenNow ==
    AnsweredWithPlaces
    => \A i \in 1..Len(ad.result.cafes) :
          LET c == ad.result.cafes[i]
          IN  /\ c.openNow <=> SaidOpen(ad.body.results[PlaceOf(c)])
              /\ c.crowdLevel = 0 <=> ~c.openNow
              /\ c.crowdLevel \in 1..5 <=> c.openNow

\* C18 witness: of three places, the one without a business status came back open
\* with a crowd level, the one not open now and the one temporarily closed (no
\* opening hours given) came back closed with crowd level 0.
C18_Witness ==
    /\ AnsweredWithPlaces
    /\ ad.body.results = <<PlaceFar, PlaceNear, PlaceShut>>
    /\ \A i \in 1..3 :
          LET c == ad.result.cafes[i]
          IN  IF c.googlePlaceId = "ChIJfar" THEN c.openNow /\ c.crowdLevel \in 1..5
              ELSE ~c.openNow /\ c.crowdLevel = 0

-----------------------------------------------------------------------------
(* Properties of MemoryCache (under SpecCache) *)

\* C7 (as claimed): the cache never holds more than 100 entries.
C7_AtMost100Entries == Len(cache) <= 100

\* C8 (as claimed): a set of a key that is not held, on a cache of exactly 100
\* entries, removes exactly one held entry, inserts the key and leaves 100 entries.
C8_Step ==
    (last'.op = "set" /\ Len(cache) = 100 /\ last'.key \notin KeySet(cache))
    => /\ Len(cache') = 100
       /\ last'.key \in KeySet(cache')
       /\ Cardinality(KeySet(cache) \ KeySet(cache')) = 1

C8_SetAtCapacityEvictsOne == [][C8_Step]_vars

\* The keys whose entry the step took out of the Map (a key put back by the same
\* step is a new insertion).
Removed == {k \in KeySet(cache) : k \notin KeySet(cache') \/ born'[k] # born[k]}

\* C9, eviction: every key a set takes out of the Map is the one inserted earliest
\* among the keys held.
C9_EvictsEarliest ==
    last'.op = "set" => \A k \in Removed : \A j \in KeySet(cache) : born[k] <= born[j]

\* C9, get: a get never reorders the entries or renews an insertion: one that finds
\* a live entry (or none) leaves the Map as it is, one that finds its entry older
\* than the TTL removes that entry alone.
C9_GetKeepsOrder ==
    last'.op = "get"
    => /\ \A k \in KeySet(cache') : k \in KeySet(cache) /\ born'[k] = born[k]
       /\ \/ cache' = cache
          \/ /\ \E i \in 1..Len(cache) :
                  cache[i].key = last'.key /\ now - cache[i].timestamp > MEMORY_CACHE_TTL
             /\ cache' = SelectSeq(cache, LAMBDA e : e.key # last'.key)
       /\ (\E i \in 1..Len(cache) :
              cache[i].key = last'.key /\ now - cache[i].timestamp <= MEMORY_CACHE_TTL)
          => cache' = cache

C9_Step ==
    /\ C9_EvictsEarliest
    /\ (last'.op = "get" /\ Len(cache) > 0)
       => (Len(cache') > 0 /\ cache'[1].key = cache[1].key)

C10_Step ==
    (last'.op = "set" /\ last'.key \in KeySet(cache))
    => /\ Len(cache') = Len(cache)
       /\ \A i \in 1..Len(cache) : cache'[i].key = cache[i].key
       /\ \A i \in 1..Len(cache) : cache[i].key # last'.key => cache'[i] = cache[i]

C10_OverwriteInPlace == [][C10_Step]_vars

\* The step is a call get(k) that finds an entry for k inserted at most the TTL ago.
GetFindsLive(i) ==
    /\ last'.op = "get"
    /\ cache[i].key = last'.key
    /\ now - cache[i].timestamp <= MEMORY_CACHE_TTL

\* C11: get(k) returns the stored payload exactly when an entry for k exists
\* that was inserted at most 5 minutes ago (exactly 5 minutes included); in every
\* other case it returns null and no entry for k is in the cache afterwards.
C11_Step ==
    /\ \A i \in 1..Len(cache) :
          GetFindsLive(i) => (~last'.ret.null /\ last'.ret.data = cache[i].data /\ cache' = cache)
    /\ (last'.op = "get" /\ ~\E i \in 1..Len(cache) : GetFindsLive(i))
       => (last'.ret.null /\ last'.key \notin KeySet(cache'))

C11_GetWithinTTL == [][C11_Step]_vars

\* C11 witness: get returned the payload of an entry aged exactly the TTL.
C11_Witness ==
    /\ last.op = "get" /\ last.key = "k2" /\ ~last.ret.null
    /\ last.ret.data = SeedData
    /\ \E i \in 1..Len(cache) : cache[i].key = "k2" /\ now - cache[i].timestamp = MEMORY_CACHE_TTL

\* C13, the step: when a call of the provider fails at the fetch (it rejects, is
\* aborted, or answers outside 2xx), the adapter returns the mock batch at once and
\* no further call is made.
C13_Step ==
    \A h \in Handlers :
        (pc[h] = "fetch" /\ pc'[h] # "json" /\ last'.by = h)
        => /\ pc'[h] = "resolved"
           /\ IsMockBatch(pending'[h].cafes)
           /\ local'[h].providerCalls = 1

\* C13: every request makes at most one call of the adapter and at most one call
\* of the external provider, also after the call failed.
C13_AtMostOneProviderCall ==
    /\ [][C13_Step]_vars
    /\ [](\A h \in Handlers : local[h].adapterCalls <= 1 /\ local[h].providerCalls <= 1)

\* C13 witness: a request was answered with the mock batch, 5 seconds or more after
\* it was received, having made its one call of the provider.
C13_Witness ==
    \E h \in Handlers :
        /\ pc[h] = "done" /\ local[h].providerCalls = 1 /\ local[h].adapterCalls = 1
        /\ resp[h].success /\ IsMockBatch(resp[h].data)
        /\ resp[h].meta.responseTime >= FETCH_TIMEOUT

-----------------------------------------------------------------------------
(* Properties of getCacheKey (under SpecKey) *)

\* Two coordinates, in 1/100000 degree, differ by less than 0.0005 degrees.
Within(x, y) == Abs(x - y) < 50

\* C16 (as claimed): two parameter sets with the same radius and query, whose
\* latitudes differ by less than 0.0005 degrees and whose longitudes differ by less
\* than 0.0005 degrees, get the same key.
C16_KeyInvariantUnderPerturbation ==
    (/\ ad.phase = "keys"
     /\ ad.p.radius = ad.q.radius /\ ad.p.query = ad.q.query
     /\ Within(ad.p.latitude, ad.q.latitude) /\ Within(ad.p.longitude, ad.q.longitude))
    => ad.kp = ad.kq

\* Two coordinates lie less than 0.0005 degrees from one and the same multiple of
\* 0.001 degrees, and on the same side of zero.
SameThousandth(x, y) ==
    /\ x < 0 <=> y < 0
    /\ \E n \in {x \div 100, (x \div 100) + 1} : Within(x, 100 * n) /\ Within(y, 100 * n)

\* C16 (amended): two parameter sets with the same radius and query, whose latitudes
\* lie less than 0.0005 degrees from the same multiple of 0.001 on the same side of
\* zero, and whose longitudes do, get the same key.
C16_KeyOfSameThousandth ==
    (/\ ad.phase = "keys"
     /\ ad.p.radius = ad.q.radius /\ ad.p.query = ad.q.query
     /\ SameThousandth(ad.p.latitude, ad.q.latitude)
     /\ SameThousandth(ad.p.longitude, ad.q.longitude))
    => ad.kp = ad.kq

\* C16 witness: two different parameter sets around 37.775, -122.419 got one key.
C16_Witness ==
    /\ ad.phase = "keys"
    /\ ad.p.latitude = 3777451 /\ ad.q.latitude = 3777549
    /\ ad.p.longitude = 0 - 12241940 /\ ad.q.longitude = 0 - 12241940
    /\ ad.p.query = ad.q.query
    /\ ad.kp = ad.kq /\ ad.kp = "cafes:37.775,-122.419:5000:" \o ad.p.query

-----------------------------------------------------------------------------
(* Properties of generateTagsFromTypes (under SpecTags) *)

\* C19: for every list of types, empty, with repeated types or with types tagMap
\* does not know, the tags are at most 3 and no tag is there twice.
C19_AtMostThreeDistinctTags ==
    ad.phase = "tags"
    => /\ Len(ad.tags) <= 3
       /\ \A i \in 1..Len(ad.tags) : \A j \in 1..Len(ad.tags) : ad.tags[i] = ad.tags[j] => i = j

\* C19 witness: the types named the two default tags again before a third one,
\* and the tags are the two defaults, once each, and that third one.
C19_Witness ==
    /\ ad.phase = "tags"
    /\ ad.types = <<"wifi", "serves_coffee", "bakery">>
    /\ ad.tags = <<"WiFi", "Coffee", "Bakery">>

-----------------------------------------------------------------------------
(* Properties of formatDistance (under SpecFormat) *)

\* t tenths of a mile is m metres / 1609.34 rounded to one decimal: t / 10 lies
\* within 0.05 of m / 1609.34.
RoundsToTenths(m, t) == 2 * Abs((m * 1000) - (t * 160934)) <= 160934

\* C21: formatDistance(m) is the whole number of metres followed by " m" for m below
\* 1000, and m / 1609.34 rounded to one decimal followed by " mi" from 1000 on;
\* formatDistance(999) = "999 m" and formatDistance(1000) = "0.6 mi".
C21_FormatDistance ==
    ad.phase = "formatted"
    => /\ ad.m < 1000 => ad.text = ToString(ad.m) \o " m"
       /\ ad.m >= 1000
          => \E t \in 0..200 :
                /\ RoundsToTenths(ad.m, t)
                /\ ad.text = ToString(t \div 10) \o "." \o ToString(t % 10) \o " mi"
       /\ ad.m = 999 => ad.text = "999 m"
       /\ ad.m = 1000 => ad.text = "0.6 mi"

\* C21 witness: 1000 metres were formatted in miles.
C21_Witness == ad.phase = "formatted" /\ ad.m = 1000 /\ ad.text = "0.6 mi"

-----------------------------------------------------------------------------
(* Properties of progress (under SpecLive) *)

\* C12 (as claimed): every request whose provider call is in flight, headers or
\* body outstanding, eventually receives a response, even if the provider never
\* completes its answer.
C12_ProviderCallBounded ==
    \A h \in Handlers : (pc[h] \in {"fetch", "json"}) ~> (pc[h] = "done")

\* C12, the part that holds: a call whose response headers are outstanding is over
\* in the end, by an answer or by the abort of the timer.
C12_HeadersBounded ==
    \A h \in Handlers : (pc[h] = "fetch") ~> (pc[h] # "fetch")

-----------------------------------------------------------------------------
(* Properties of the write-through (under Spec) *)

\* Handler h returns from the adapter's call in this step.
Finishes(h) == pc[h] = "resolved" /\ pc'[h] = "done"

\* The entries of the Map after the step that it did not hold before it.
Written(before, after) == {after[i] : i \in 1..Len(after)} \ {before[i] : i \in 1..Len(before)}

\* C22: the handler stores only the non-empty result of an adapter call made for a
\* request without page token; a request whose adapter result is empty leaves the
\* cache as it was, and a request whose key the cache does not hold calls the
\* adapter, so the next identical request calls it again.
C22_WritesOnlyNonEmptyFirstPages ==
    [][/\ \A e \in Written(cache, cache') :
            \E h \in Handlers :
                /\ Finishes(h)
                /\ local[h].adapterCalls = 1
                /\ ~HasPageToken(req[h])
                /\ Len(pending[h].cafes) > 0
                /\ e.key = CacheKeyOf(req[h])
                /\ e.data.cafes = pending[h].cafes
                /\ Len(e.data.cafes) > 0
       /\ \A h \in Handlers :
            Finishes(h) /\ Len(pending[h].cafes) = 0 => cache' = cache
       /\ \A h \in Handlers :
            Receives(h) /\ ~Rejected(req'[h]) /\ ~MapHas(cache, CacheKeyOf(req'[h]))
            => local'[h].adapterCalls = 1]_vars

\* C22 witness: handler 1 answered a request without page token with the adapter's
\* empty list, the cache holds nothing under its key, and handler 2, given the same
\* request afterwards, has looked the key up in vain and called the adapter.
C22_Witness ==
    /\ pc[1] = "done" /\ resp[1].success /\ resp[1].meta.count = 0
    /\ local[1].adapterCalls = 1
    /\ ~HasPageToken(req[1])
    /\ req[2] = req[1]
    /\ ~MapHas(cache, CacheKeyOf(req[1]))
    /\ last.op = "get" /\ last.by = 2 /\ last.ret = NullValue
    /\ pc[2] = "fetch" /\ local[2].adapterCalls = 1

-----------------------------------------------------------------------------
(* Properties of the life of an entry (under SpecCache) *)

\* C23: an entry leaves the cache only through delete of its key, clear, a get of
\* its key that finds it older than the TTL, or eviction by a set made when the
\* cache holds MAX_MEMORY_CACHE_SIZE entries or more; the passing of time removes
\* nothing, and size() goes on counting the entries that have expired.
C23_Step ==
    /\ \A k \in Removed :
          \/ last'.op = "delete" /\ last'.key = k
          \/ last'.op = "clear"
          \/ /\ last'.op = "get" /\ last'.key = k
             /\ now - MapGet(cache, k).timestamp > MEMORY_CACHE_TTL
          \/ last'.op = "set" /\ size(cache) >= MAX_MEMORY_CACHE_SIZE
    /\ now' # now => (cache' = cache /\ size(cache') = size(cache))
    /\ size(cache') < size(cache) => Removed # {}

C23_LeavesOnlyByOperation == [][C23_Step]_vars

\* C23 witness: the clock went past the TTL of all 100 entries and no operation
\* followed: size() is still 100.
C23_Witness ==
    /\ size(cache) = MAX_MEMORY_CACHE_SIZE
    /\ \A i \in 1..Len(cache) : now - cache[i].timestamp > MEMORY_CACHE_TTL
    /\ budget.ticks = 1 /\ last = NoOp

-----------------------------------------------------------------------------
(* Properties of the cache key of GET (under SpecRequestKey) *)

\* C24 (as claimed): the key built for a request with a page token is never equal
\* to the key built for a request without one, whatever lat, lng, radius, query and
\* page token are.
C24_TokenKeyNeverFirstPageKey ==
    (ad.phase = "cachekeys" /\ HasPageToken(ad.p) /\ ~HasPageToken(ad.q)) => ad.kp # ad.kq

-----------------------------------------------------------------------------
(* Properties of the response metadata (under Spec) *)

\* C25: in every success response meta.cacheHit is true exactly when the request
\* made no adapter call, meta.cacheSource is "memory" exactly when cacheHit is true
\* and "none" otherwise, and meta.count is the number of points returned.
C25_MetaTellsTheSource ==
    \A h \in Handlers :
        (pc[h] = "done" /\ resp[h].success)
        => /\ resp[h].meta.cacheHit <=> local[h].adapterCalls = 0
           /\ resp[h].meta.cacheSource = (IF resp[h].meta.cacheHit THEN "memory" ELSE "none")
           /\ resp[h].meta.count = Len(resp[h].data)

\* C25 witness: one request was answered from its adapter call with source "none",
\* another from the cache with source "memory", each with the count of its points.
C25_Witness ==
    /\ pc[1] = "done" /\ resp[1].success /\ local[1].adapterCalls = 1
    /\ ~resp[1].meta.cacheHit /\ resp[1].meta.cacheSource = "none"
    /\ resp[1].meta.count = 3 /\ Len(resp[1].data) = 3
    /\ pc[2] = "done" /\ resp[2].success /\ local[2].adapterCalls = 0
    /\ resp[2].meta.cacheHit /\ resp[2].meta.cacheSource = "memory"
    /\ resp[2].meta.count = 3 /\ Len(resp[2].data) = 3

-----------------------------------------------------------------------------
(* Properties of concurrent write-throughs (under SpecFull) *)

\* Both handlers were given the same request, both missed, and both have written
\* their adapter's result through to the cache.
BothWroteThrough ==
    /\ budget.requests = 2
    /\ pc[1] = "done" /\ pc[2] = "done" /\ req[1] = req[2]
    /\ local[1].adapterCalls = 1 /\ local[2].adapterCalls = 1
    /\ local[1].cacheSets = 1 /\ local[2].cacheSets = 1

\* C26 (as claimed): when two concurrent requests with the same key both miss and
\* both write through to a cache that held 100 entries under other keys, the two
\* writes together evict exactly one entry and the cache holds 100 entries.
C26_TwoWritesEvictOne ==
    BothWroteThrough
    => /\ size(cache) = MAX_MEMORY_CACHE_SIZE
       /\ Cardinality(KeySet(cache) \ {CacheKeyOf(req[1])}) = MAX_MEMORY_CACHE_SIZE - 1

-----------------------------------------------------------------------------
(* Properties of the fallback in the cache (under Spec) *)

\* C27, the write: a request without page token whose provider call failed stores
\* the list of generateMockCafes it answers with, like any other result.
C27_StoresFallback ==
    \A h \in Handlers :
        (/\ Finishes(h) /\ ~pending[h].threw /\ ~HasPageToken(req[h])
         /\ local[h].providerCalls = 1 /\ IsMockBatch(pending[h].cafes))
        => /\ MapHas(cache', CacheKeyOf(req[h]))
           /\ MapGet(cache', CacheKeyOf(req[h])).data.cafes = pending[h].cafes
           /\ MapGet(cache', CacheKeyOf(req[h])).timestamp = now
           /\ resp'[h].data = pending[h].cafes

\* C27, the read: while the cache holds a list of generateMockCafes under the key of
\* a request without page token, not older than the TTL, the request is answered
\* with that list and cacheHit = true, and neither the adapter nor the provider is
\* called, whether a credential is configured or not.
C27_ServesFallback ==
    \A h \in Handlers : \A i \in 1..Len(cache) :
        (/\ Receives(h) /\ ~Rejected(req'[h]) /\ ~HasPageToken(req'[h])
         /\ cache[i].key = CacheKeyOf(req'[h])
         /\ IsMockBatch(cache[i].data.cafes)
         /\ now - cache[i].timestamp <= MEMORY_CACHE_TTL)
        => /\ pc'[h] = "done" /\ resp'[h].success
           /\ resp'[h].data = cache[i].data.cafes
           /\ resp'[h].meta.cacheHit
           /\ local'[h].adapterCalls = 0 /\ local'[h].providerCalls = 0
           /\ cache' = cache

\* C27, two requests: when a request without page token whose provider call failed
\* was answered, and the same request is received afterwards, no later than the TTL
\* after that answer, it gets the same list with cacheHit = true and no provider call.
C27_TwoRequests ==
    \A a \in Handlers : \A b \in Handlers \ {a} :
        (/\ budget.requests = 2
         /\ pc[a] = "done" /\ pc[b] = "done" /\ req[a] = req[b]
         /\ ~HasPageToken(req[a])
         /\ local[a].providerCalls = 1 /\ resp[a].success /\ IsMockBatch(resp[a].data)
         /\ resp[a].meta.timestamp < local[b].startTime
         /\ local[b].startTime - resp[a].meta.timestamp <= MEMORY_CACHE_TTL)
        => /\ resp[b].success /\ resp[b].meta.cacheHit
           /\ resp[b].data = resp[a].data
           /\ local[b].providerCalls = 0

-----------------------------------------------------------------------------
(* Properties of hashCode (under SpecHash) *)

\* The bits are those of a negative signed 32-bit number.
Negative32(h) == h.hi >= 32768

\* The numbers a and b, each given by its 16-bit halves, add up to 2^32.
AddUpTo2Pow32(a, b) ==
    /\ (a.lo + b.lo) % 65536 = 0
    /\ a.hi + b.hi + ((a.lo + b.lo) \div 65536) = 65536

\* C28: hashCode returns a non-negative whole number, the absolute value of the
\* hash truncated to signed 32 bits (2^31 when that hash is -2^31), and equal
\* identifiers get equal ids.
C28_HashCodeNonNegative ==
    ad.phase = "hashed"
    => /\ ad.id.hi \in 0..32768 /\ ad.id.lo \in 0..65535
       /\ ad.id.hi = 32768 => ad.id.lo = 0
       /\ ~Negative32(ad.bits) => ad.id = ad.bits
       /\ Negative32(ad.bits) => AddUpTo2Pow32(ad.id, ad.bits)
       /\ ad.p = ad.q => ad.id = ad.idq

\* C28 witness: the hash of an identifier is -2^31 before Math.abs, and its id is 2^31.
C28_Witness ==
    /\ ad.phase = "hashed" /\ ad.p = ad.q
    /\ ad.bits = [hi |-> 32768, lo |-> 0]
    /\ ad.id = [hi |-> 32768, lo |-> 0] /\ ad.idq = ad.id

-----------------------------------------------------------------------------
(* Properties of the predicted wait (under SpecAdapter) *)

\* The label reads "a-b min" for whole numbers a <= b.
IsRisingRange(label) ==
    \E a \in 0..20 : \E b \in a..20 :
        label = ToString(a) \o "-" \o ToString(b) \o " min"

\* C29 (as claimed): every record the adapter returns as open, made of a provider
\* result or generated, has a predicted wait "a-b min" with a <= b, and every
\* record returned as closed has "Closed".
C29_WaitIsRisingRange ==
    ad.phase = "returned"
    => \A i \in 1..Len(ad.result.cafes) :
          LET c == ad.result.cafes[i]
          IN  IF c.openNow THEN IsRisingRange(c.predictedWait) ELSE c.predictedWait = "Closed"

-----------------------------------------------------------------------------
(* Properties of the page component (under SpecPage) *)

\* The load-more requests in flight.
PendingLoadMore == {i \in 1..Len(page.inflight) : page.inflight[i].append}

\* C30 (as claimed): at most one load-more request is pending at any time, and no
\* page is appended to the list twice.
C30_OneLoadMoreAtATime ==
    /\ Cardinality(PendingLoadMore) <= 1
    /\ \A i \in 1..Len(page.cafes) : \A j \in 1..Len(page.cafes) :
          i # j => page.cafes[i] # page.cafes[j]

====
